---- MODULE Spec2Model ----
(***************************************************************************)
(* Model of project-size-analyzer (src/main.py): the scan of a root        *)
(* directory for target folders, their sizing with os.walk, the nested     *)
(* size adjustment and the ordering of the result.                         *)
(*                                                                         *)
(* The file system below the root is a tree of MaxNodes entries.  Entry    *)
(* ids are the pre-order numbers of the tree, and a directory lists its    *)
(* entries in increasing id, so every ordered tree occurs once.  A         *)
(* symbolic link points at nothing, at the root or at any entry, itself    *)
(* and entries listed after it included.  A path is the sequence of the    *)
(* entry ids of its segments below the root.                               *)
(*                                                                         *)
(* An entry that fails on access (a file that cannot be examined, a        *)
(* directory that cannot be listed) fails the same way whenever the run    *)
(* comes to it; whether it fails is settled when the run first does.       *)
(***************************************************************************)
EXTENDS Integers, Sequences, FiniteSets, TLC

MaxNodes == 5        \* entries below the root
MaxSize == 1         \* largest file size, in bytes (the smallest is 0)
MaxLinks == 1        \* entries that are symbolic links
MaxFaults == 1       \* entries that fail on access during one run
MaxPlain == 1        \* directories and links whose name normalizes to no target
MaxPermuted == 4     \* longest list of records whose every order is compared

Root == 0
Nodes == 1..MaxNodes
NoNode == 0 - 1      \* the target of a dangling symbolic link

VARIABLES
    fs,               \* the directory tree below the root, once it is listed
    pc,               \* position in main(); "crash" after an uncaught exception
    rootStatus,       \* what the root directory turned out to be
    project_dirs,     \* main: project_dirs
    pidx,             \* number of projects whose loop body has started
    found_folders,    \* main: found_folders of the current project
    fidx,             \* number of found folders already sized
    all_results,      \* main: all_results (project, full_path, size_bytes)
    raw_sizes,        \* the values get_folder_size returned, in call order
    fault_log,        \* the access failures each get_folder_size call met
    find_log,         \* the directories each Finder call could not list
    faults,           \* the entries found to fail so far, each with its failure
    touched,          \* the entries the run has listed or examined so far
    sorted_results,   \* main: sorted_results
    total_size_bytes, \* main: total_size_bytes
    steps,            \* adjust, summary: the step has run; export: the CSV is written
    exit_code         \* process exit status (-1 while running)

vars == <<fs, pc, rootStatus, project_dirs, pidx, found_folders, fidx,
          all_results, raw_sizes, fault_log, find_log, faults, touched,
          sorted_results, total_size_bytes, steps, exit_code>>

(***************************************************************************)
(* Names.  A name is a sequence of one-character strings.                  *)
(***************************************************************************)
Digits == <<"1", "2", "3", "4", "5", "6", "7", "8", "9">>

UpperLetters ==
    <<"A", "B", "C", "D", "E", "F", "G", "H", "I", "J", "K", "L", "M",
      "N", "O", "P", "Q", "R", "S", "T", "U", "V", "W", "X", "Y", "Z">>

LowerLetters ==
    <<"a", "b", "c", "d", "e", "f", "g", "h", "i", "j", "k", "l", "m",
      "n", "o", "p", "q", "r", "s", "t", "u", "v", "w", "x", "y", "z">>

\* str.lower() on one character of an ASCII name.
LowerChar(c) ==
    IF \E i \in 1..Len(UpperLetters) : UpperLetters[i] = c
    THEN LowerLetters[CHOOSE i \in 1..Len(UpperLetters) : UpperLetters[i] = c]
    ELSE c

\* The characters [^a-z0-9] leaves in place.
IsLowerAlnum(c) ==
    c \in {LowerLetters[i] : i \in 1..Len(LowerLetters)}
           \cup {"0"} \cup {Digits[i] : i \in 1..Len(Digits)}

\* re.sub(r'[^a-z0-9]', '', name.lower())
normalize_name(name) ==
    SelectSeq([i \in 1..Len(name) |-> LowerChar(name[i])], IsLowerAlnum)

\* args.targets: the raw target names given on the command line
target_folders == [i \in 1..MaxNodes |-> <<"e", " ", Digits[i]>>]

\* main: target_set
target_set == {normalize_name(target_folders[i]) : i \in 1..Len(target_folders)}

\* The two names a directory entry n may carry: one that normalizes to a
\* target and one that does not.  Names are distinct among siblings.
TargetLikeName(n) == <<"E", "-", Digits[n]>>
PlainName(n) == <<"S", "_", Digits[n]>>
FileName(n) == <<"f", ".", Digits[n]>>

(***************************************************************************)
(* The file system.  fs[n] describes entry n: the directory it lies in,    *)
(* its kind, its name, its size (regular files) and, for a symbolic link,  *)
(* the entry it points at.                                                 *)
(***************************************************************************)
Kind(n) == IF n = Root THEN "dir" ELSE fs[n].kind

RECURSIVE ResolveIn(_, _, _)
\* What entry n of the tree t denotes once symbolic links are followed, at
\* most hops of them: NoNode for a link that dangles or that leads back to
\* itself (ENOENT and ELOOP, which is_dir() and is_file() both swallow).
ResolveIn(t, n, hops) ==
    IF n = NoNode \/ n = Root THEN n
    ELSE IF t[n].kind # "link" THEN n
    ELSE IF hops = 0 THEN NoNode
    ELSE ResolveIn(t, t[n].to, hops - 1)

\* What a path ending in entry n denotes once symbolic links are followed.
Resolve(n) == ResolveIn(fs, n, MaxNodes)

\* DirEntry.is_dir() / Path.is_dir(): follows symbolic links.
IsDirEntry(n) == Resolve(n) # NoNode /\ Kind(Resolve(n)) = "dir"

NotDirEntry(n) == ~IsDirEntry(n)

\* os.scandir(d): the entries of directory d in listing order.
ScanDir(d) == SelectSeq([i \in 1..MaxNodes |-> i], LAMBDA n : fs[n].parent = d)

SeqRange(s) == {s[i] : i \in 1..Len(s)}

Last(p) == p[Len(p)]

\* The names a directory or a symbolic link may carry as entry k of the
\* unfinished tree t.
DirNames(t, k) ==
    {TargetLikeName(k)}
    \cup (IF Cardinality({i \in 1..(k - 1) : t[i].name = PlainName(i)}) < MaxPlain
          THEN {PlainName(k)} ELSE {})

\* The entries an unfinished tree t may get as entry k below parent p.  A
\* symbolic link gets its target once the tree is complete.
NewEntries(t, k, p) ==
    [parent : {p}, kind : {"dir"}, name : DirNames(t, k),
     size : {0}, to : {NoNode}]
    \cup
    [parent : {p}, kind : {"file"}, name : {FileName(k)},
     size : 0..MaxSize, to : {NoNode}]
    \cup
    (IF Cardinality({i \in 1..(k - 1) : t[i].kind = "link"}) < MaxLinks
     THEN [parent : {p}, kind : {"link"}, name : DirNames(t, k),
           size : {0}, to : {NoNode}]
     ELSE {})

RECURSIVE AncSelf(_, _)
AncSelf(t, n) == IF n = Root THEN {Root} ELSE {n} \cup AncSelf(t, t[n].parent)

\* Entry k hangs below a directory on the path from the root to entry k-1:
\* the ids are the pre-order numbers of the tree.
NewParents(t, k) ==
    IF k = 1 THEN {Root}
    ELSE {a \in AncSelf(t, k - 1) : a = Root \/ t[a].kind = "dir"}

\* What a symbolic link may point at: nothing, the root, or any entry of
\* the tree, whether listed before or after the link, the link itself and
\* other links included.
LinkTargets == {NoNode, Root} \cup Nodes

\* The tree t with its symbolic links pointing where to says.
WithTargets(t, to) ==
    [n \in 1..Len(t) |->
        IF t[n].kind = "link" THEN [t[n] EXCEPT !.to = to[n]] ELSE t[n]]

RECURSIVE BuildFs(_, _)
\* The tree the scan finds below the root: any tree of MaxNodes entries.
BuildFs(t, k) ==
    IF k > MaxNodes
    THEN \E to \in [{n \in Nodes : t[n].kind = "link"} -> LinkTargets] :
             fs' = WithTargets(t, to)
    ELSE \E p \in NewParents(t, k) : \E e \in NewEntries(t, k, p) :
             BuildFs(Append(t, e), k + 1)

(***************************************************************************)
(* os.walk(top), top-down, followlinks=False, onerror=None.                *)
(***************************************************************************)
RECURSIVE Walk(_, _)
RECURSIVE WalkInto(_, _, _, _)
\* One (dirpath, dirnames, filenames) triple per directory visited.  The top
\* is opened with scandir, which follows a symbolic link; a top that is no
\* directory or whose listing fails (it is in blocked) yields nothing, and
\* with onerror=None nothing tells: a subdirectory that cannot be listed
\* stays in the dirnames of its parent and is passed over.
Walk(top, blocked) ==
    LET d == Resolve(Last(top))
    IN IF d = NoNode \/ Kind(d) # "dir" \/ d \in blocked THEN <<>>
       ELSE LET entries == ScanDir(d)
                dirs == SelectSeq(entries, IsDirEntry)
                nondirs == SelectSeq(entries, NotDirEntry)
            IN <<[dirpath |-> top, dirs |-> dirs, files |-> nondirs]>>
               \o WalkInto(top, dirs, 1, blocked)

\* "if followlinks or not islink(new_path): yield from walk(new_path)"
WalkInto(top, dirs, i, blocked) ==
    IF i > Len(dirs) THEN <<>>
    ELSE (IF Kind(dirs[i]) = "link" THEN <<>>
          ELSE Walk(Append(top, dirs[i]), blocked))
         \o WalkInto(top, dirs, i + 1, blocked)

RECURSIVE WalkTries(_, _)
RECURSIVE WalkTriesInto(_, _, _, _)
\* The directories a walk of top tries to list, in the order of its scandir
\* calls, each with the outcome: the top, then every subdirectory, no
\* symbolic link, of a directory it did list.  The listed ones are the
\* directories of the triples of Walk, in the same order.
WalkTries(top, blocked) ==
    LET d == Resolve(Last(top))
    IN IF d = NoNode \/ Kind(d) # "dir" THEN <<>>
       ELSE IF d \in blocked THEN <<[dir |-> d, listed |-> FALSE]>>
       ELSE <<[dir |-> d, listed |-> TRUE]>>
            \o WalkTriesInto(top, SelectSeq(ScanDir(d), IsDirEntry), 1, blocked)

WalkTriesInto(top, dirs, i, blocked) ==
    IF i > Len(dirs) THEN <<>>
    ELSE (IF Kind(dirs[i]) = "link" THEN <<>>
          ELSE WalkTries(Append(top, dirs[i]), blocked))
         \o WalkTriesInto(top, dirs, i + 1, blocked)

RECURSIVE TriedUpTo(_, _, _)
\* os.walk is a generator: the directories of tries e tried by the time
\* the n-th triple is handed out.
TriedUpTo(e, i, n) ==
    IF i > Len(e) THEN {}
    ELSE IF e[i].listed /\ n = 1 THEN {e[i].dir}
    ELSE {e[i].dir}
         \cup TriedUpTo(e, i + 1, IF e[i].listed THEN n - 1 ELSE n)

\* The directories a walk of top that runs to its end tries to list.
AttemptedDirs(top, blocked) ==
    LET e == WalkTries(top, blocked) IN {e[i].dir : i \in 1..Len(e)}

\* PurePath.is_relative_to: containment by whole path segments.
IsRelativeTo(child, parent) ==
    Len(parent) <= Len(child) /\ SubSeq(child, 1, Len(parent)) = parent

(***************************************************************************)
(* find_target_folders_in_project                                          *)
(***************************************************************************)
\* The inner loop over current_dirs of one walked directory.
MatchesIn(root, dirs) ==
    LET hits == SelectSeq(dirs,
                     LAMBDA d : normalize_name(fs[d].name) \in target_set)
    IN [i \in 1..Len(hits) |-> Append(root, hits[i])]

RECURSIVE FindFrom(_, _)
FindFrom(w, i) ==
    IF i > Len(w) THEN <<>>
    ELSE MatchesIn(w[i].dirpath, w[i].dirs) \o FindFrom(w, i + 1)

\* The Finder with "dirs.remove(d)" after a match: os.walk then skips the
\* matched directory, and a match nested in a match is lost.
find_pruning_matches(project_dir, blocked) ==
    LET all == FindFrom(Walk(project_dir, blocked), 1)
    IN SelectSeq(all, LAMBDA p :
           ~\E q \in SeqRange(all) : q # p /\ IsRelativeTo(p, q))

\* blocked: the directories whose listing fails during this call.
find_target_folders_in_project(project_dir, blocked) ==
    FindFrom(Walk(project_dir, blocked), 1)

(***************************************************************************)
(* get_folder_size                                                         *)
(***************************************************************************)
\* The ways the examination of a file fails.
Faults == {"vanished", "racestat", "denied", "oserror"}

\* The directories whose listing fails during a call whose failures are flt,
\* a set of <<entry, failure>> pairs.
Unlistable(flt) == {x[1] : x \in {y \in flt : y[2] = "unlistable"}}

\* The failure file f meets during a call whose failures are flt.
FaultOf(flt, f) ==
    IF \E x \in Faults : <<f, x>> \in flt
    THEN CHOOSE x \in Faults : <<f, x>> \in flt
    ELSE "none"

RECURSIVE FilesOf(_, _)
\* The files of a walk in the order the nested loops reach them.
FilesOf(w, i) == IF i > Len(w) THEN <<>> ELSE w[i].files \o FilesOf(w, i + 1)

\* Path.is_file(): False for a vanished file (ENOENT is swallowed), raises
\* for any other stat failure; follows symbolic links.
IsFile(f) == Resolve(f) # NoNode /\ Kind(Resolve(f)) = "file"

RECURSIVE SumFilesCountingLinks(_, _, _, _)
\* The loops without the "not file_path.is_symlink()" test: a symbolic link
\* to a regular file adds the size of the file it points at.
SumFilesCountingLinks(files, i, total, flt) ==
    IF i > Len(files) THEN [value |-> total, exc |-> "none"]
    ELSE LET f == files[i]
             fault == FaultOf(flt, f)
         IN IF fault = "denied"
            THEN [value |-> total, exc |-> "PermissionError"]
            ELSE IF fault = "oserror"
            THEN [value |-> total, exc |-> "OSError"]
            ELSE IF fault # "vanished" /\ IsFile(f) /\ fault # "racestat"
            THEN SumFilesCountingLinks(files, i + 1,
                                       total + fs[Resolve(f)].size, flt)
            ELSE SumFilesCountingLinks(files, i + 1, total, flt)

RECURSIVE SumFiles(_, _, _, _)
\* The body of the loops of get_folder_size from file i on, total so far.
\* exc is the exception that ended the loops: PermissionError is caught by
\* the outer handler, any other OSError of is_file leaves the function.
SumFiles(files, i, total, flt) ==
    IF i > Len(files) THEN [value |-> total, exc |-> "none"]
    ELSE LET f == files[i]
             fault == FaultOf(flt, f)
         IN IF fault = "denied"
            THEN [value |-> total, exc |-> "PermissionError"]
            ELSE IF fault = "oserror"
            THEN [value |-> total, exc |-> "OSError"]
            ELSE IF fault # "vanished" /\ IsFile(f) /\ Kind(f) # "link"
                    /\ fault # "racestat"
            THEN SumFiles(files, i + 1, total + fs[f].size, flt)
            ELSE SumFiles(files, i + 1, total, flt)

get_folder_size(folder_path, flt) ==
    SumFiles(FilesOf(Walk(folder_path, Unlistable(flt)), 1), 1, 0, flt)

RECURSIVE ExaminedFiles(_, _, _)
\* The files the loops come to before an exception ends them.
ExaminedFiles(files, i, flt) ==
    IF i > Len(files) THEN {}
    ELSE IF FaultOf(flt, files[i]) \in {"denied", "oserror"} THEN {files[i]}
    ELSE {files[i]} \cup ExaminedFiles(files, i + 1, flt)

\* The entries a Finder call and a get_folder_size call come to.
FinderTouches(top, flt) == AttemptedDirs(top, Unlistable(flt))

RECURSIVE LastTriple(_, _, _)
\* The number of the triple in whose files an exception ends the loops, one
\* more than the number of triples when none does.
LastTriple(w, i, flt) ==
    IF i > Len(w) THEN i
    ELSE IF \E f \in SeqRange(w[i].files) :
                FaultOf(flt, f) \in {"denied", "oserror"}
    THEN i
    ELSE LastTriple(w, i + 1, flt)

SizeTouches(top, flt) ==
    LET w == Walk(top, Unlistable(flt))
    IN TriedUpTo(WalkTries(top, Unlistable(flt)), 1, LastTriple(w, 1, flt))
       \cup ExaminedFiles(FilesOf(w, 1), 1, flt)

\* The failures of flt a call that came to the entries T has met.
Met(flt, T) == {x \in flt : x[1] \in T}

RECURSIVE FaultSetsUpTo(_, _, _)
\* The ways at most k of the files F and the directories D, which a call
\* comes to first, fail.
FaultSetsUpTo(F, D, k) ==
    IF k = 0 THEN {{}}
    ELSE LET prev == FaultSetsUpTo(F, D, k - 1)
         IN prev \cup
            UNION { { s \cup {<<f, x>>} : f \in {g \in F : FaultOf(s, g) = "none"},
                                         x \in Faults }
                    \cup { s \cup {<<d, "unlistable">>} : d \in D }
                    : s \in prev }

(***************************************************************************)
(* main                                                                    *)
(***************************************************************************)
Init ==
    /\ fs = <<>>
    /\ pc = "start"
    /\ rootStatus = "unknown"
    /\ project_dirs = <<>>
    /\ pidx = 0
    /\ found_folders = <<>>
    /\ fidx = 0
    /\ all_results = <<>>
    /\ raw_sizes = <<>>
    /\ fault_log = <<>>
    /\ find_log = <<>>
    /\ faults = {}
    /\ touched = {}
    /\ sorted_results = <<>>
    /\ total_size_bytes = 0
    /\ steps = {}
    /\ exit_code = 0 - 1

\* if not projects_root_dir.is_dir(): sys.exit(1).  is_dir() is False for
\* a root that is missing or no directory; any other failure of its stat
\* (EACCES on a directory of the path, EIO) is raised, and nothing catches it.
CheckRoot ==
    /\ pc = "start"
    /\ \E st \in {"ok", "missing", "notdir", "unreadable"} :
         /\ rootStatus' = st
         /\ pc' = CASE st = "ok" -> "list"
                    [] st = "unreadable" -> "crash"
                    [] OTHER -> "exit"
         /\ exit_code' = IF st = "ok" THEN exit_code ELSE 1
    /\ UNCHANGED <<fs, project_dirs, pidx, found_folders, fidx, all_results,
                   raw_sizes, fault_log, find_log, faults, touched, sorted_results,
                   total_size_bytes, steps>>

\* [d for d in projects_root_dir.iterdir() if d.is_dir()] on the tree t
ProjectDirs(t) ==
    LET isdir(n) == LET r == ResolveIn(t, n, MaxNodes)
                    IN r = Root \/ (r # NoNode /\ t[r].kind = "dir")
        ds == SelectSeq([i \in 1..MaxNodes |-> i],
                        LAMBDA n : t[n].parent = Root /\ isdir(n))
    IN [i \in 1..Len(ds) |-> <<ds[i]>>]

\* The listing of the root: project_dirs, with FileNotFoundError and
\* PermissionError ending the run with a message.  Any other OSError of
\* iterdir() or d.is_dir() (the root replaced by a file since the check:
\* NotADirectoryError; EIO) is caught nowhere.  The tree below the root is
\* whatever the listing finds there.
ListProjects ==
    /\ pc = "list"
    /\ \E st \in {"ok", "vanished", "denied", "unlistable"} :
         /\ rootStatus' = st
         /\ IF st = "ok"
            THEN /\ BuildFs(<<>>, 1)
                 /\ project_dirs' = ProjectDirs(fs')
                 /\ pc' = "projects"
                 /\ exit_code' = exit_code
            ELSE /\ fs' = fs
                 /\ project_dirs' = project_dirs
                 /\ pc' = IF st = "unlistable" THEN "crash" ELSE "exit"
                 /\ exit_code' = 1
    /\ UNCHANGED <<pidx, found_folders, fidx, all_results, raw_sizes,
                   fault_log, find_log, faults, touched, sorted_results,
                   total_size_bytes, steps>>

\* The head of the loop over project_dirs: the Finder call, and "continue"
\* when it found nothing.
FindInProject ==
    /\ pc = "projects"
    /\ pidx < Len(project_dirs)
    /\ pidx' = pidx + 1
    /\ LET project_dir == project_dirs[pidx + 1]
           fresh == AttemptedDirs(project_dir, Unlistable(faults))
                    \ (touched \cup {Root})
       IN \E new \in FaultSetsUpTo({}, fresh, MaxFaults - Cardinality(faults)) :
            LET flt == faults \cup new
                seen == FinderTouches(project_dir, flt)
            IN /\ found_folders' =
                      find_target_folders_in_project(project_dir,
                                                     Unlistable(flt))
               /\ find_log' = Append(find_log, Unlistable(Met(flt, seen)))
               /\ faults' = flt
               /\ touched' = touched \cup seen
    /\ fidx' = 0
    /\ pc' = IF found_folders' = <<>> THEN "projects" ELSE "size"
    /\ UNCHANGED <<fs, rootStatus, project_dirs, all_results, raw_sizes,
                   fault_log, sorted_results, total_size_bytes, steps,
                   exit_code>>

\* One pass of the loop over found_folders: the size calculation and the
\* append to all_results.  An exception leaving get_folder_size ends main.
SizeFolder ==
    /\ pc = "size"
    /\ fidx < Len(found_folders)
    /\ LET folder_path == found_folders[fidx + 1]
           fresh == SizeTouches(folder_path, faults) \ (touched \cup {Root})
           files == {n \in fresh : Kind(n) # "dir"}
           dirs == {n \in fresh : Kind(n) = "dir"}
       IN \E new \in FaultSetsUpTo(files, dirs,
                                    MaxFaults - Cardinality(faults)) :
            LET flt == faults \cup new
                seen == SizeTouches(folder_path, flt)
                size == get_folder_size(folder_path, flt)
            IN /\ fault_log' = Append(fault_log, Met(flt, seen))
               /\ faults' = flt
               /\ touched' = touched \cup seen
               /\ IF size.exc = "OSError"
                  THEN /\ pc' = "crash"
                       /\ exit_code' = 1
                       /\ UNCHANGED <<fidx, all_results, raw_sizes>>
                  ELSE /\ all_results' = Append(all_results,
                             [project |-> project_dirs[pidx][1],
                              target_name |-> fs[Last(folder_path)].name,
                              full_path |-> folder_path,
                              size_bytes |-> size.value])
                       /\ raw_sizes' = Append(raw_sizes, size.value)
                       /\ fidx' = fidx + 1
                       /\ pc' = IF fidx + 1 = Len(found_folders)
                                THEN "projects" ELSE "size"
                       /\ exit_code' = exit_code
    /\ UNCHANGED <<fs, rootStatus, project_dirs, pidx, found_folders, find_log,
                   sorted_results, total_size_bytes, steps>>

(***************************************************************************)
(* The adjustment of nested sizes, the ordering and the total.             *)
(***************************************************************************)
RECURSIVE AdjustFromReversed(_, _, _)
\* The adjustment with the outer loop running over the records last to
\* first, so that a nested record is decremented before its ancestors read it.
AdjustFromReversed(rs, i, j) ==
    LET pi == Len(rs) + 1 - i
    IN IF i > Len(rs) THEN rs
       ELSE IF j > Len(rs) THEN AdjustFromReversed(rs, i + 1, 1)
       ELSE IF rs[pi].full_path # rs[j].full_path
               /\ IsRelativeTo(rs[j].full_path, rs[pi].full_path)
            THEN AdjustFromReversed(
                     [rs EXCEPT ![pi].size_bytes = @ - rs[j].size_bytes],
                     i, j + 1)
            ELSE AdjustFromReversed(rs, i, j + 1)

RECURSIVE AdjustFromFirstNested(_, _, _)
\* The adjustment with a "break" after the subtraction: a record loses the
\* bytes of the first record nested below it that the inner loop meets.
AdjustFromFirstNested(rs, i, j) ==
    IF i > Len(rs) THEN rs
    ELSE IF j > Len(rs) THEN AdjustFromFirstNested(rs, i + 1, 1)
    ELSE IF rs[i].full_path # rs[j].full_path
            /\ IsRelativeTo(rs[j].full_path, rs[i].full_path)
         THEN AdjustFromFirstNested(
                  [rs EXCEPT ![i].size_bytes = @ - rs[j].size_bytes], i + 1, 1)
         ELSE AdjustFromFirstNested(rs, i, j + 1)

RECURSIVE AdjustFrom(_, _, _)
\* The nested loops of the adjustment from the pair (i, j) on.  results_copy
\* is a new list of the SAME records, so the size read for the child is the
\* one the loop may already have decremented.
AdjustFrom(rs, i, j) ==
    IF i > Len(rs) THEN rs
    ELSE IF j > Len(rs) THEN AdjustFrom(rs, i + 1, 1)
    ELSE IF rs[i].full_path # rs[j].full_path
            /\ IsRelativeTo(rs[j].full_path, rs[i].full_path)
         THEN AdjustFrom([rs EXCEPT ![i].size_bytes = @ - rs[j].size_bytes],
                         i, j + 1)
         ELSE AdjustFrom(rs, i, j + 1)

AdjustSizes(rs) == AdjustFrom(rs, 1, 1)

RECURSIVE InsertBeforeEqual(_, _, _)
\* An insertion that puts r in front of the records of its own size: the
\* ordering an unstable sort may give.
InsertBeforeEqual(s, r, i) ==
    IF i > Len(s) \/ s[i].size_bytes <= r.size_bytes
    THEN SubSeq(s, 1, i - 1) \o <<r>> \o SubSeq(s, i, Len(s))
    ELSE InsertBeforeEqual(s, r, i + 1)

RECURSIVE InsertBySize(_, _, _)
\* r enters the descending list s behind every record at least as large.
InsertBySize(s, r, i) ==
    IF i > Len(s) \/ s[i].size_bytes < r.size_bytes
    THEN SubSeq(s, 1, i - 1) \o <<r>> \o SubSeq(s, i, Len(s))
    ELSE InsertBySize(s, r, i + 1)

RECURSIVE SortFrom(_, _, _)
SortFrom(rs, i, acc) ==
    IF i > Len(rs) THEN acc
    ELSE SortFrom(rs, i + 1, InsertBySize(acc, rs[i], 1))

\* sorted(all_results, key=size_bytes, reverse=True): a stable sort.
SortedBySize(rs) == SortFrom(rs, 1, <<>>)

RECURSIVE SumSizes(_, _)
SumSizes(rs, i) ==
    IF i > Len(rs) THEN 0 ELSE rs[i].size_bytes + SumSizes(rs, i + 1)

\* The adjustment of main(), run once over all_results after the last
\* project.
Adjust ==
    /\ pc = "projects"
    /\ pidx = Len(project_dirs)
    /\ all_results' = AdjustSizes(all_results)
    /\ steps' = steps \cup {"adjust"}
    /\ pc' = "summary"
    /\ UNCHANGED <<fs, rootStatus, project_dirs, pidx, found_folders, fidx,
                   raw_sizes, fault_log, find_log, faults, touched,
                   sorted_results, total_size_bytes, exit_code>>

\* What becomes of the export: not asked for, written, the file not
\* writable (open() fails inside the try: a message, the run goes on), or
\* the parent directory not creatable (mkdir is in front of the try: its
\* FileExistsError or PermissionError leaves export_to_csv and main).
Exports == {"none", "written", "unwritable", "noparent"}

\* The summary: nothing but a message when there are no results, else the
\* sorted list, the total and, when --export-csv was given, the export of
\* the sorted list.
Summarize ==
    /\ pc = "summary"
    /\ IF all_results = <<>>
       THEN /\ UNCHANGED <<sorted_results, total_size_bytes, steps>>
            /\ pc' = "done"
            /\ exit_code' = 0
       ELSE /\ sorted_results' = SortedBySize(all_results)
            /\ total_size_bytes' = SumSizes(sorted_results', 1)
            /\ \E export \in Exports :
                 /\ steps' = steps \cup {"summary"}
                        \cup (IF export = "written" THEN {"export"} ELSE {})
                 /\ pc' = IF export = "noparent" THEN "crash" ELSE "done"
                 /\ exit_code' = IF export = "noparent" THEN 1 ELSE 0
    /\ UNCHANGED <<fs, rootStatus, project_dirs, pidx, found_folders, fidx,
                   all_results, raw_sizes, fault_log, find_log, faults, touched>>

Next ==
    \/ CheckRoot
    \/ ListProjects
    \/ FindInProject
    \/ SizeFolder
    \/ Adjust
    \/ Summarize

Spec == Init /\ [][Next]_vars

(***************************************************************************)
(* Vocabulary of the properties: the tree as a set of entries, described   *)
(* without the walk.                                                       *)
(***************************************************************************)
\* The entries strictly below directory d.  Only directories have entries,
\* so each is reached through directories alone.
Below(d) == {n \in Nodes : d \in AncSelf(fs, fs[n].parent)}

\* The regular files below what the path p denotes.
RegularFilesUnder(p) ==
    IF IsDirEntry(Last(p))
    THEN {n \in Below(Resolve(Last(p))) : fs[n].kind = "file"}
    ELSE {}

RECURSIVE SumOver(_)
SumOver(S) ==
    IF S = {} THEN 0
    ELSE LET n == CHOOSE x \in S : TRUE IN fs[n].size + SumOver(S \ {n})

RECURSIVE PathFrom(_, _)
\* The segments that lead from directory d down to entry n.
PathFrom(d, n) ==
    IF fs[n].parent = d THEN <<n>> ELSE Append(PathFrom(d, fs[n].parent), n)

StrictlyInside(child, parent) ==
    child # parent /\ IsRelativeTo(child, parent)

Records == 1..Len(all_results)

\* The records whose path lies strictly below record i's.
Descendants(i) ==
    {j \in Records :
        StrictlyInside(all_results[j].full_path, all_results[i].full_path)}

RECURSIVE SumRaw(_)
SumRaw(S) ==
    IF S = {} THEN 0
    ELSE LET j == CHOOSE x \in S : TRUE IN raw_sizes[j] + SumRaw(S \ {j})

Adjusted == "adjust" \in steps

\* No symbolic link in the tree and no access failure so far.
PlainScan ==
    /\ \A n \in Nodes : fs[n].kind # "link"
    /\ \A k \in 1..Len(fault_log) : fault_log[k] = {}
    /\ \A k \in 1..Len(find_log) : find_log[k] = {}

IsRealDir(p) == Kind(Last(p)) = "dir"

(***************************************************************************)
(* C1.  After the adjustment every record's size is its raw size (the      *)
(* value get_folder_size returned) minus the raw sizes of all records      *)
(* whose path lies strictly below its own; a record with none keeps its    *)
(* raw size.                                                               *)
(***************************************************************************)
C1_FinalIsRawMinusDescendantsRaw ==
    Adjusted =>
        \A i \in Records :
            all_results[i].size_bytes = raw_sizes[i] - SumRaw(Descendants(i))

\* A record with a matched child and a matched grandchild, all holding
\* bytes, has been adjusted next to a record with nothing below it.
C1_Witness ==
    /\ Adjusted
    /\ \E i, j, k \in Records :
         /\ j \in Descendants(i) /\ k \in Descendants(j)
         /\ raw_sizes[k] > 0
         /\ all_results[i].size_bytes # raw_sizes[i]
         /\ Descendants(k) = {}
         /\ all_results[k].size_bytes = raw_sizes[k]

(***************************************************************************)
(* C2.  After the adjustment every record's size is >= 0 (stated for trees *)
(* without symbolic links and scans without access failures).              *)
(***************************************************************************)
C2_FinalSizesNonNegative ==
    (Adjusted /\ PlainScan) =>
        \A i \in Records : all_results[i].size_bytes >= 0

(***************************************************************************)
(* C3.  After the scan each record's size is the bytes of the regular      *)
(* files below it that lie in no other matched folder nested below it, and *)
(* the grand total counts every file below a matched folder once (stated   *)
(* for trees without symbolic links and scans without access failures).    *)
(***************************************************************************)
OwnFiles(i) ==
    RegularFilesUnder(all_results[i].full_path) \
    UNION {RegularFilesUnder(all_results[j].full_path) : j \in Descendants(i)}

C3_EachFileCountedOnce ==
    (Adjusted /\ PlainScan) =>
        /\ \A i \in Records : all_results[i].size_bytes = SumOver(OwnFiles(i))
        /\ "summary" \in steps =>
              total_size_bytes =
                  SumOver(UNION {RegularFilesUnder(all_results[i].full_path)
                                   : i \in Records})

(***************************************************************************)
(* C4.  find_target_folders_in_project returns exactly the directory       *)
(* entries at any depth below the project directory whose name normalizes  *)
(* to a target, each once; matches nested in matches are returned and the  *)
(* project directory itself never is.  (Below a directory that cannot be   *)
(* listed there is nothing to return: the entries meant are those every    *)
(* directory on the way to which can be listed.)                           *)
(***************************************************************************)
\* The directories that hold entry m, from its own up to directory d.
DirsDownTo(d, m) ==
    {a \in AncSelf(fs, fs[m].parent) : a = d \/ a \in Below(d)}

ExpectedMatches(project_dir, blocked) ==
    LET d == Resolve(Last(project_dir))
    IN { project_dir \o PathFrom(d, n) :
           n \in { m \in Below(d) :
                     /\ IsDirEntry(m) /\ fs[m].name = TargetLikeName(m)
                     /\ DirsDownTo(d, m) \cap blocked = {} } }

C4_FinderReturnsExactlyTheMatches ==
    pidx >= 1 =>
        /\ SeqRange(found_folders)
              = ExpectedMatches(project_dirs[pidx], find_log[pidx])
        /\ Len(found_folders) = Cardinality(SeqRange(found_folders))
        /\ project_dirs[pidx] \notin SeqRange(found_folders)

\* The Finder returned a match nested in another match, for a project
\* directory whose own name normalizes to a target.
C4_Witness ==
    /\ pidx >= 1
    /\ find_log[pidx] = {}
    /\ normalize_name(fs[project_dirs[pidx][1]].name) \in target_set
    /\ \E a, b \in SeqRange(found_folders) : StrictlyInside(b, a)

(***************************************************************************)
(* C5.  get_folder_size of a directory returns the sum of the sizes of     *)
(* the regular files of its whole subtree; directories and symbolic links  *)
(* to files add nothing; the result is >= 0.  (Calls that met an access    *)
(* failure are C7's.)                                                      *)
(***************************************************************************)
C5_SizeIsSumOfRegularFiles ==
    \A k \in 1..Len(raw_sizes) :
        /\ raw_sizes[k] >= 0
        /\ (IsRealDir(all_results[k].full_path) /\ fault_log[k] = {}) =>
              raw_sizes[k] = SumOver(RegularFilesUnder(all_results[k].full_path))

\* A sized directory holds a file in a subdirectory and a symbolic link to
\* a regular file.
C5_Witness ==
    \E k \in 1..Len(raw_sizes) :
        LET p == all_results[k].full_path
        IN /\ IsRealDir(p) /\ fault_log[k] = {}
           /\ \E f \in RegularFilesUnder(p) : fs[f].parent # Last(p)
           /\ \E l \in Below(Last(p)) : fs[l].kind = "link" /\ IsFile(l)

(***************************************************************************)
(* C6.  The records handed to presentation and export are all_results      *)
(* ordered by adjusted size, largest first, records of equal size in       *)
(* discovery order.                                                        *)
(***************************************************************************)
DiscoveryIndex(r) ==
    CHOOSE i \in Records : all_results[i].full_path = r.full_path

C6_SortedByFinalSizeStable ==
    "summary" \in steps =>
        /\ Len(sorted_results) = Len(all_results)
        /\ SeqRange(sorted_results) = SeqRange(all_results)
        /\ \A a, b \in 1..Len(sorted_results) :
             a < b =>
               \/ sorted_results[a].size_bytes > sorted_results[b].size_bytes
               \/ /\ sorted_results[a].size_bytes = sorted_results[b].size_bytes
                  /\ DiscoveryIndex(sorted_results[a])
                       < DiscoveryIndex(sorted_results[b])

\* Two records tie on their adjusted size and a record whose raw size was
\* the largest is no longer first.
C6_Witness ==
    /\ "summary" \in steps
    /\ \E i, j \in Records :
         i < j /\ all_results[i].size_bytes = all_results[j].size_bytes
    /\ \E i, j \in Records :
         /\ raw_sizes[i] >= raw_sizes[j]
         /\ all_results[i].size_bytes < all_results[j].size_bytes

(***************************************************************************)
(* C7.  A file that cannot be examined is skipped alone: get_folder_size   *)
(* still returns the sum of every other regular file of the subtree, and   *)
(* no exception leaves it.                                                 *)
(***************************************************************************)
AccessibleFilesUnder(p, flt) ==
    {f \in RegularFilesUnder(p) : FaultOf(flt, f) = "none"}

\* The failures the statement names: the file vanished (before it is
\* examined, or between the examination and the stat), or access is denied.
NamedFailures == {"vanished", "racestat", "denied"}

C7_FailingFileSkippedAlone ==
    \A k \in 1..Len(fault_log) :
        (\A m \in fault_log[k] : m[2] \in NamedFailures) =>
            /\ k <= Len(raw_sizes)
            /\ IsRealDir(all_results[k].full_path) =>
                 raw_sizes[k] =
                     SumOver(AccessibleFilesUnder(all_results[k].full_path,
                                                  fault_log[k]))

(***************************************************************************)
(* C8.  A root that is missing, no directory or not listable ends the run  *)
(* with a non-zero status before anything is scanned; no access failure    *)
(* inside the scanned tree ends the run: a run that ends before its        *)
(* summary, or with a non-zero status before it, had a failing root.       *)
(***************************************************************************)
RootFailures ==
    {"missing", "notdir", "unreadable", "vanished", "denied", "unlistable"}

C8_OnlyRootFailureAborts ==
    /\ rootStatus \in RootFailures =>
          /\ pc \in {"exit", "crash"} /\ exit_code = 1
          /\ pidx = 0 /\ raw_sizes = <<>> /\ all_results = <<>>
          /\ steps = {} /\ sorted_results = <<>>
    /\ (pc \in {"exit", "crash"} /\ "summary" \notin steps) =>
          rootStatus \in RootFailures

(***************************************************************************)
(* C9.  Vocabulary: the loops of the adjustment applied to the raw         *)
(* records taken in another order.                                         *)
(***************************************************************************)
RawResults ==
    [i \in Records |-> [all_results[i] EXCEPT !.size_bytes = raw_sizes[i]]]

Identity(n) == [k \in 1..n |-> k]

Perms(n) == {f \in [1..n -> 1..n] : \A i \in 1..n : \E k \in 1..n : f[k] = i}

\* The adjustment run on the records rs taken in the order ord (a
\* permutation of their indices); the result is given back in the records'
\* own order.
AdjustInOrder(rs, ord) ==
    LET done == AdjustSizes([k \in 1..Len(rs) |-> rs[ord[k]]])
    IN [i \in 1..Len(rs) |->
          done[CHOOSE k \in 1..Len(rs) : ord[k] = i]]

\* In the order ord every record comes before the records nested below it.
AncestorsFirst(ord) ==
    \A a, b \in Records :
        StrictlyInside(all_results[ord[b]].full_path,
                       all_results[ord[a]].full_path) => a < b

(***************************************************************************)
(* C9, as stated.  The adjustment gives every record the same size         *)
(* whatever the order of the list it is run on: run on any permutation of  *)
(* the raw records of the scan, the loops give the sizes the scan ended    *)
(* with.                                                                   *)
(***************************************************************************)
C9_AdjustmentOrderIndependent ==
    (Adjusted /\ Len(all_results) <= MaxPermuted) =>
        \A ord \in Perms(Len(all_results)) :
            AdjustInOrder(RawResults, ord) = all_results

(***************************************************************************)
(* C9, amended.  The adjustment gives every record the same size on every  *)
(* order of the list in which each record comes before the records nested  *)
(* below it: run on any such permutation of the raw records of the scan,   *)
(* the loops give the sizes the scan ended with.                           *)
(***************************************************************************)
C9_SameSizesWhenAncestorsFirst ==
    (Adjusted /\ Len(all_results) <= MaxPermuted) =>
        \A ord \in Perms(Len(all_results)) :
            AncestorsFirst(ord) => AdjustInOrder(RawResults, ord) = all_results

\* A record that lost bytes to two records nested below it of different raw
\* size, which another order with the ancestors first puts the other way
\* round.
C9_Witness ==
    /\ Adjusted /\ Len(all_results) <= MaxPermuted
    /\ \E i, j, k \in Records :
         /\ j \in Descendants(i) /\ k \in Descendants(i) /\ j < k
         /\ raw_sizes[j] # raw_sizes[k]
         /\ all_results[i].size_bytes # raw_sizes[i]
         /\ \E ord \in Perms(Len(all_results)) :
              /\ AncestorsFirst(ord)
              /\ \E a, b \in Records : a < b /\ ord[a] = k /\ ord[b] = j

(***************************************************************************)
(* C10.  No symbolic link is followed as a directory: no walk of the scan  *)
(* lists a directory reached through a symbolic link, and a matched        *)
(* symbolic link adds no bytes to any record.                              *)
(***************************************************************************)
ThroughLink(p) == \E i \in 1..Len(p) : Kind(p[i]) = "link"

\* The walks the scan has made so far, each with the directories it could
\* not list.
WalksOfScan ==
    {Walk(project_dirs[i], find_log[i]) : i \in 1..pidx}
    \cup {Walk(all_results[k].full_path, Unlistable(fault_log[k]))
            : k \in 1..Len(raw_sizes)}

C10_NoSymlinkFollowed ==
    /\ \A w \in WalksOfScan :
         \A i \in 1..Len(w) : ~ThroughLink(w[i].dirpath)
    /\ \A k \in 1..Len(raw_sizes) :
         ThroughLink(all_results[k].full_path) => raw_sizes[k] = 0

====
